---- MODULE Spec2Model ----
(***************************************************************************)
(* The cycle scheduling engine of the interval timer: the driver           *)
(* (startTimerLoop, runMacroCycle, runMesoCycle), the interval planner     *)
(* (planMesoSchedule), the shared timer state with its publish functions   *)
(* (setCurrentTask, setMesoTask, clearMesoTask, wait), the cue sink        *)
(* (playSound) and the snapshot readers (statusHandler, Game.Draw,         *)
(* Game.Update).                                                           *)
(*                                                                         *)
(* Time is counted in whole seconds: a time.Duration of d seconds is the   *)
(* integer d, time.Now() is the integer now.                               *)
(***************************************************************************)
EXTENDS Integers, Sequences, FiniteSets, TLC

(***************************************************************************)
(* Bounds of the model.                                                    *)
(***************************************************************************)
\* The clock stops advancing at MaxTime.
MaxTime == 5
\* rand.Intn(61) draws 0..60; the model explores the draws 0..MaxJitter.
MaxJitter == 3
\* The planner's loop makes up to 100 attempts; the model explores runs of
\* up to MaxAttempts attempts.
MaxAttempts == 2
\* Configurations of the driver have 1..MaxMesoCount meso-groups.
MaxMesoCount == 3
\* At most MaxInFlight lock-free readers are in the middle of their loads at
\* a time (the lock-free readers share nothing with each other).
MaxInFlight == 1
\* A lock-free reader's loads are over within MaxReadSpan seconds of its
\* reading the clock.
MaxReadSpan == 1
\* Under the example configuration the model explores the jitter draws
\* 0..MaxExampleJitter.
MaxExampleJitter == 9

(***************************************************************************)
(* Constants of the program.                                               *)
(***************************************************************************)
\* time.Minute in seconds
Minute == 60
\* rand.Intn(61)
JitterRange == 61
\* for attempt := 0; attempt < 100; attempt++
AttemptBudget == 100
\* bestDiff := 1000000
BestDiffInit == 1000000
\* for n := estN - 5; n <= estN+5; n++
SearchRadius == 5

Min(a, b) == IF a <= b THEN a ELSE b

RECURSIVE SumSeq(_)
SumSeq(s) == IF Len(s) = 0 THEN 0 ELSE Head(s) + SumSeq(Tail(s))

Zeros(k) == [x \in 1..k |-> 0]

(***************************************************************************)
(* Config (config.json).  Port is not modelled.                            *)
(***************************************************************************)
MkConfig(base, offset, rest, mesoM, mesoRestM, count, macroRestM) ==
    [MicroBaseS |-> base, MicroOffsetS |-> offset, MicroRestS |-> rest,
     MesoDurationM |-> mesoM, MesoRestM |-> mesoRestM, MesoCount |-> count,
     MacroRestM |-> macroRestM]

\* Configurations the driver is run under: micro-intervals of 1..3 seconds
\* with a rest of 1 second, or of exactly 1 second with no rest; a target of
\* 0 minutes (the jitter alone sets the group's length); no meso or macro
\* rest time.
DriverConfigs ==
    { MkConfig(2, 1, 1, 0, 0, c, 0) : c \in 1..MaxMesoCount } \cup
    { MkConfig(1, 0, 0, 0, 0, c, 0) : c \in 1..MaxMesoCount }

\* The configuration the lock-free build is run under: two meso-groups.
LockFreeConfigs == { MkConfig(2, 1, 1, 0, 0, 2, 0) }

\* Configurations the planner alone is run under.
PlanConfigs ==
    { MkConfig(2, 1, 1, 0, 0, 1, 0),
      MkConfig(3, 0, 0, 0, 0, 1, 0),
      MkConfig(3, 1, 0, 0, 0, 1, 0),
      MkConfig(25, 5, 5, 1, 0, 1, 0),
      MkConfig(30, 1, 1, 1, 0, 1, 0),
      MkConfig(100, 5, 5, 1, 0, 1, 0),
      MkConfig(1, 0, 1000000, 33334, 0, 1, 0) }

\* The readers: the /status handler and the GUI frame callback.  In the
\* "mutex" build they take state.Lock() (web_server.go:35-59, Game.Draw); in
\* the "atomic" build they load the five fields one by one without a lock
\* (web_server.go:96-129, Game.Update).

Readers == {"web", "gui"}

VARIABLES
    cfg,              \* config
    build,            \* the build variant
    now,              \* the wall clock, seconds
    pc,               \* the driver's statement
    fn,               \* the function the driver is inside at that statement
    step,             \* the driver's position inside fn
    arg,              \* the duration passed to the function
    sleepFrom,        \* when time.Sleep was called
    i,                \* runMacroCycle's loop index
    j,                \* runMesoCycle's loop index
    microDurations,   \* runMesoCycle's plan
    actualTarget, n, attempt, durations, bestDurations, bestDiff,
                      \* planMesoSchedule's locals
    CurrentStartTime, CurrentDuration, MesoStartTime, MesoDuration, InMeso,
                      \* state (GlobalState)
    mutex,            \* state.Mutex: "free" or its holder
    speakerInited,
    rpc, snap,        \* the readers: position and the values read so far
    cues,             \* history: the cues of the current macro-cycle
    planLens,         \* history: the plan lengths of the current macro-cycle
    lastCurrent,      \* history: the pair the last setCurrentTask wrote
    lastMeso,         \* history: the pair the last setMesoTask wrote
    lastElapsed,      \* history: the active elapsed the latest snapshot since
                      \* the last setCurrentTask reported, <<>> if none
    groupWaits,       \* history: the sum of the durations passed to wait
                      \* since the last setMesoTask call
    tried             \* history: the plans planMesoSchedule's attempts have
                      \* made in its latest call, in order

plannerVars == <<actualTarget, n, attempt, durations, bestDurations, bestDiff>>
sharedVars == <<CurrentStartTime, CurrentDuration, MesoStartTime, MesoDuration,
                InMeso>>
readerVars == <<rpc, snap>>
loopVars == <<i, j>>
ctlVars == <<pc, fn, step, arg, sleepFrom>>
histVars == <<cues, planLens, lastCurrent, lastMeso, lastElapsed, groupWaits,
              tried>>

vars == <<cfg, build, now, pc, fn, step, arg, sleepFrom, i, j, microDurations,
          actualTarget, n, attempt, durations, bestDurations, bestDiff,
          CurrentStartTime, CurrentDuration, MesoStartTime, MesoDuration,
          InMeso, mutex, speakerInited, rpc, snap, cues, planLens, lastCurrent,
          lastMeso, lastElapsed, groupWaits, tried>>

(***************************************************************************)
(* planMesoSchedule: the pure parts.                                       *)
(***************************************************************************)
MinDur(c) == c.MicroBaseS - c.MicroOffsetS
MaxDur(c) == c.MicroBaseS + c.MicroOffsetS

TargetSec(c) == c.MesoDurationM * Minute

JitterDraws == 0..Min(JitterRange - 1, MaxJitter)

EstN(c, target) == target \div (c.MicroBaseS + c.MicroRestS)

Feasible(c, target, k) ==
    /\ k > 0
    /\ target >= k * MinDur(c) + (k - 1) * c.MicroRestS
    /\ target <= k * MaxDur(c) + (k - 1) * c.MicroRestS

\* validN as a set: the feasible counts around the estimate, or the estimate
\* itself when there is none.
ValidN(c, target) ==
    LET est == EstN(c, target)
        found == { k \in (est - SearchRadius)..(est + SearchRadius) :
                      Feasible(c, target, k) }
    IN  IF found = {} THEN {est} ELSE found

RequiredLast(c, target, k, draws) ==
    target - (k - 1) * c.MicroRestS - SumSeq(draws)

InBounds(c, d) == d >= MinDur(c) /\ d <= MaxDur(c)

Diff(c, last) ==
    IF last < MinDur(c) THEN MinDur(c) - last ELSE last - MaxDur(c)

\* The draws of one attempt: n-1 values of minDur + rand.Intn(maxDur-minDur+1).
AttemptDraws(c, k) == [1..(k - 1) -> MinDur(c)..MaxDur(c)]

\* durations[n-1] with n = 0 indexes out of range, and rand.Intn panics on an
\* argument <= 0.
PlanFaults(c, k) ==
    \/ k <= 0
    \/ k >= 2 /\ MaxDur(c) - MinDur(c) + 1 <= 0

AttemptLimit == Min(AttemptBudget, MaxAttempts)


(***************************************************************************)
(* The driver's statements.  pc names the statement of runMacroCycle or    *)
(* runMesoCycle the driver is at; fn = "none" means the statement is about *)
(* to be executed, any other fn that the driver is inside the function the *)
(* statement calls.                                                        *)
(***************************************************************************)
PublishFns == {"setCurrentTask", "setMesoTask", "clearMesoTask"}

WaitStmts == {"micro_wait", "micro_rest", "meso_rest", "macro_rest"}
ClearStmts == {"clear_meso", "macro_clear"}
CueStmts == {"micro_cue", "micro_rest_cue", "meso_cue", "meso_rest_cue",
             "macro_cue", "macro_rest_cue"}

\* Variant of IsLastMeso: the last group is not recognised.
IsLastMesoNever(idx) == FALSE

\* isLast := (i == config.MesoCount-1)
IsLastMeso(idx) == idx = cfg.MesoCount - 1

\* Variant of HasMicroRest: a rest follows the last micro-interval too.
HasMicroRestAlways(idx, len) == idx < len

\* if i < len(microDurations)-1
HasMicroRest(idx, len) == idx < len - 1

\* The cue each playSound call stands for, and the file it plays.
CueAt(stmt) ==
    CASE stmt = "micro_cue"      -> "MicroComplete"
      [] stmt = "micro_rest_cue" -> "MicroRestComplete"
      [] stmt = "meso_cue"       -> "MesoComplete"
      [] stmt = "meso_rest_cue"  -> "MesoRestComplete"
      [] stmt = "macro_cue"      -> "MacroComplete"
      [] stmt = "macro_rest_cue" -> "MacroRestComplete"

SoundAt(stmt) ==
    CASE stmt = "micro_cue"      -> "Sounds/warning.mp3"
      [] stmt = "micro_rest_cue" -> "Sounds/succeed.mp3"
      [] stmt = "meso_cue"       -> "Sounds/info.mp3"
      [] stmt = "meso_rest_cue"  -> "Sounds/succeed.mp3"
      [] stmt = "macro_cue"      -> "Sounds/info.mp3"
      [] stmt = "macro_rest_cue" -> "Sounds/succeed.mp3"

\* The duration each wait call is given.
WaitDuration(stmt) ==
    CASE stmt = "micro_wait" -> microDurations[j + 1]
      [] stmt = "micro_rest" -> cfg.MicroRestS
      [] stmt = "meso_rest"  -> cfg.MesoRestM * Minute
      [] stmt = "macro_rest" -> cfg.MacroRestM * Minute

\* Variant of TotalMesoDuration: the rests are left out.
TotalMesoDurationNoRests(plan) == SumSeq(plan)

\* totalMesoDuration: the plan's durations and the rests between them.
TotalMesoDuration(plan) ==
    SumSeq(plan) + (IF Len(plan) > 0 THEN (Len(plan) - 1) * cfg.MicroRestS ELSE 0)

\* for i := 0; i < config.MesoCount; i++ { runMesoCycle(i+1, isLast) }
MesoLoop(idx) ==
    IF idx < cfg.MesoCount
       THEN [pc |-> "plan", i |-> idx, j |-> 0]
       ELSE [pc |-> "macro_cue", i |-> idx, j |-> 0]

\* for i, duration := range microDurations { ... }
MicroLoop(idx) ==
    IF idx < Len(microDurations)
       THEN [pc |-> "micro_wait", i |-> i, j |-> idx]
       ELSE [pc |-> "clear_meso", i |-> i, j |-> idx]

Goto(stmt) == [pc |-> stmt, i |-> i, j |-> j]

\* The statement that follows the one at pc, once its call has returned.
After(stmt) ==
    CASE stmt = "plan"           -> Goto("set_meso")
      [] stmt = "set_meso"       -> MicroLoop(0)
      [] stmt = "micro_wait"     -> Goto("micro_cue")
      [] stmt = "micro_cue"      -> IF HasMicroRest(j, Len(microDurations))
                                       THEN Goto("micro_rest")
                                       ELSE MicroLoop(j + 1)
      [] stmt = "micro_rest"     -> Goto("micro_rest_cue")
      [] stmt = "micro_rest_cue" -> MicroLoop(j + 1)
      [] stmt = "clear_meso"     -> IF ~IsLastMeso(i)
                                       THEN Goto("meso_cue")
                                       ELSE MesoLoop(i + 1)
      [] stmt = "meso_cue"       -> Goto("meso_rest")
      [] stmt = "meso_rest"      -> Goto("meso_rest_cue")
      [] stmt = "meso_rest_cue"  -> MesoLoop(i + 1)
      [] stmt = "macro_cue"      -> Goto("macro_clear")
      [] stmt = "macro_clear"    -> Goto("macro_rest")
      [] stmt = "macro_rest"     -> Goto("macro_rest_cue")
      [] stmt = "macro_rest_cue" -> Goto("macro_start")

\* The called function returns: the driver moves to the next statement.
Return ==
    /\ pc' = After(pc).pc
    /\ i' = After(pc).i
    /\ j' = After(pc).j
    /\ fn' = "none"
    /\ step' = 0

\* A panic unwinds to startTimerLoop's deferred recover, which logs it; the
\* function then returns and the goroutine ends.
Recover ==
    /\ pc' = "dead"
    /\ fn' = "none"
    /\ step' = 0
    /\ UNCHANGED <<i, j>>

\* History kept with a snapshot: whether the start and the total it holds were
\* written by one publish, the one whose pair is ref.
Paired(start, total, ref) == <<start, total>> = ref

\* A reader's snapshot.  cRef (history) is the pair setCurrentTask was writing
\* when the start was loaded, kept until the total is loaded; prevElapsed
\* (history) is lastElapsed as it was when the snapshot was taken.
EmptySnap ==
    [now |-> 0, cStart |-> 0, cDur |-> 0, mStart |-> 0, mDur |-> 0,
     inMeso |-> FALSE, cRef |-> <<0, 0>>, cPaired |-> TRUE,
     mPaired |-> TRUE, prevElapsed |-> <<>>]

\* Variant of Elapsed: the time left is reported in place of the time passed.
ElapsedAsRemaining(t, start, total) ==
    IF t - start > total THEN 0 ELSE total - (t - start)

\* elapsed := time.Since(start).Seconds(); if elapsed > total { elapsed = total }
Elapsed(t, start, total) ==
    IF t - start > total THEN total ELSE t - start

\* current_elapsed and meso_elapsed of a snapshot.
CurrentElapsed(s) == Elapsed(s.now, s.cStart, s.cDur)
MesoElapsed(s) == Elapsed(s.now, s.mStart, s.mDur)

InitCommon ==
    /\ now = 1
    /\ fn = "none" /\ step = 0 /\ arg = 0 /\ sleepFrom = 0
    /\ i = 0 /\ j = 0
    /\ microDurations = <<>>
    /\ actualTarget = 0 /\ n = 0 /\ attempt = 0
    /\ durations = <<>> /\ bestDurations = <<>> /\ bestDiff = 0
    /\ CurrentStartTime = 0 /\ CurrentDuration = 0
    /\ MesoStartTime = 0 /\ MesoDuration = 0 /\ InMeso = FALSE
    /\ mutex = "free"
    /\ speakerInited = FALSE
    /\ rpc = [r \in Readers |-> "idle"]
    /\ snap = [r \in Readers |-> EmptySnap]
    /\ cues = <<>> /\ planLens = <<>>
    /\ lastCurrent = <<0, 0>>
    /\ lastMeso = <<0, 0>>
    /\ lastElapsed = <<>>
    /\ groupWaits = 0
    /\ tried = <<>>

\* go startTimerLoop(), after loadConfig
Init ==
    /\ cfg \in DriverConfigs
    /\ build = "mutex"
    /\ pc = "macro_start"
    /\ InitCommon

(***************************************************************************)
(* runMacroCycle and runMesoCycle: the calls.                              *)
(***************************************************************************)
\* startTimerLoop's for { runMacroCycle() } entering runMacroCycle
MacroStart ==
    /\ pc = "macro_start" /\ fn = "none"
    /\ pc' = MesoLoop(0).pc /\ i' = 0 /\ j' = 0
    /\ cues' = <<>> /\ planLens' = <<>>
    /\ UNCHANGED <<cfg, build, now, fn, step, arg, sleepFrom, microDurations,
                   plannerVars, sharedVars, mutex, speakerInited, readerVars,
                   lastCurrent, lastMeso, lastElapsed, groupWaits,
                   tried>>

\* microDurations := planMesoSchedule(targetDuration)
CallPlan ==
    /\ pc = "plan" /\ fn = "none"
    /\ fn' = "plan" /\ step' = 0
    /\ UNCHANGED <<cfg, build, now, pc, arg, sleepFrom, loopVars, microDurations,
                   plannerVars, sharedVars, mutex, speakerInited, readerVars,
                   histVars>>

\* setMesoTask(totalMesoDuration)
CallSetMeso ==
    /\ pc = "set_meso" /\ fn = "none"
    /\ fn' = "setMesoTask" /\ step' = 0
    /\ arg' = TotalMesoDuration(microDurations)
    /\ actualTarget' = 0 /\ n' = 0
    /\ groupWaits' = 0
    /\ tried' = <<>>
    /\ UNCHANGED <<cfg, build, now, pc, sleepFrom, loopVars, microDurations,
                   attempt, durations, bestDurations, bestDiff,
                   sharedVars, mutex, speakerInited, readerVars, cues, planLens,
                   lastCurrent, lastMeso, lastElapsed>>

\* wait(duration): setCurrentTask(duration), then time.Sleep(duration)
CallWait ==
    /\ pc \in WaitStmts /\ fn = "none"
    /\ fn' = "setCurrentTask" /\ step' = 0
    /\ arg' = WaitDuration(pc)
    /\ groupWaits' = IF pc \in {"micro_wait", "micro_rest"}
                        THEN groupWaits + WaitDuration(pc)
                        ELSE groupWaits
    /\ UNCHANGED <<cfg, build, now, pc, sleepFrom, loopVars, microDurations,
                   plannerVars, sharedVars, mutex, speakerInited, readerVars,
                   cues, planLens, lastCurrent, lastMeso, lastElapsed, tried>>

\* clearMesoTask()
CallClear ==
    /\ pc \in ClearStmts /\ fn = "none"
    /\ fn' = "clearMesoTask" /\ step' = 0
    /\ UNCHANGED <<cfg, build, now, pc, arg, sleepFrom, loopVars, microDurations,
                   plannerVars, sharedVars, mutex, speakerInited, readerVars,
                   histVars>>

\* playSound(path)
CallPlaySound ==
    /\ pc \in CueStmts /\ fn = "none"
    /\ fn' = "playSound" /\ step' = 0
    /\ cues' = Append(cues, CueAt(pc))
    /\ UNCHANGED <<cfg, build, now, pc, arg, sleepFrom, loopVars, microDurations,
                   plannerVars, sharedVars, mutex, speakerInited, readerVars,
                   planLens, lastCurrent, lastMeso, lastElapsed, groupWaits,
                   tried>>

(***************************************************************************)
(* planMesoSchedule.                                                       *)
(***************************************************************************)
\* The jitter, the candidate counts, the choice of n, the two slices; the
\* jitter is one of jitters.
PlanBeginWith(jitters) ==
    /\ fn = "plan" /\ step = 0
    /\ \E jitter \in jitters :
         LET target == TargetSec(cfg) + jitter IN
         \E k \in ValidN(cfg, target) :
            /\ actualTarget' = target
            /\ n' = k
            /\ durations' = Zeros(k)
            /\ bestDurations' = Zeros(k)
    /\ bestDiff' = BestDiffInit
    /\ attempt' = 0
    /\ step' = 1
    /\ tried' = <<>>
    /\ UNCHANGED <<cfg, build, now, pc, fn, arg, sleepFrom, loopVars,
                   microDurations, sharedVars, mutex, speakerInited, readerVars,
                   cues, planLens, lastCurrent, lastMeso, lastElapsed,
                   groupWaits>>

PlanBegin == PlanBeginWith(JitterDraws)

\* return durations / return bestDurations
PlanReturn(result) ==
    /\ microDurations' = result
    /\ planLens' = Append(planLens, Len(result))
    /\ Return
    /\ attempt' = 0 /\ durations' = <<>> /\ bestDurations' = <<>>
    /\ bestDiff' = 0
    /\ UNCHANGED <<actualTarget, n>>

\* One attempt of the loop: n-1 draws, the last duration the target requires,
\* and either the return of a perfect plan or the record of the closest miss.
PlanAttempt ==
    /\ fn = "plan" /\ step = 1
    /\ attempt < AttemptLimit
    /\ ~PlanFaults(cfg, n)
    /\ \E draws \in AttemptDraws(cfg, n) :
         LET last == RequiredLast(cfg, actualTarget, n, draws)
             ds == Append(draws, last)
         IN  /\ tried' = Append(tried, ds)
             /\ IF InBounds(cfg, last)
                THEN PlanReturn(ds)
                ELSE /\ durations' = ds
                     /\ IF Diff(cfg, last) < bestDiff
                           THEN /\ bestDiff' = Diff(cfg, last)
                                /\ bestDurations' = ds
                           ELSE UNCHANGED <<bestDiff, bestDurations>>
                     /\ attempt' = attempt + 1
                     /\ UNCHANGED <<pc, fn, step, loopVars, microDurations,
                                    actualTarget, n, planLens>>
    /\ UNCHANGED <<cfg, build, now, arg, sleepFrom, sharedVars, mutex,
                   speakerInited, readerVars, cues, lastCurrent, lastMeso,
                   lastElapsed, groupWaits>>

\* The attempts are used up: return bestDurations.
PlanExhausted ==
    /\ fn = "plan" /\ step = 1
    /\ attempt = AttemptLimit
    /\ PlanReturn(bestDurations)
    /\ UNCHANGED <<cfg, build, now, arg, sleepFrom, sharedVars, mutex,
                   speakerInited, readerVars, cues, lastCurrent, lastMeso,
                   lastElapsed, groupWaits, tried>>

\* The first attempt panics: index out of range, or rand.Intn's argument.
PlanPanic ==
    /\ fn = "plan" /\ step = 1
    /\ attempt < AttemptLimit
    /\ PlanFaults(cfg, n)
    /\ Recover
    /\ UNCHANGED <<cfg, build, now, arg, sleepFrom, microDurations, plannerVars,
                   sharedVars, mutex, speakerInited, readerVars, histVars>>

\* The planner alone, called once under each of PlanConfigs.
InitPlan ==
    /\ cfg \in PlanConfigs
    /\ build = "mutex"
    /\ pc = "plan"
    /\ InitCommon

NextPlan ==
    \/ CallPlan
    \/ PlanBegin
    \/ PlanAttempt
    \/ PlanExhausted
    \/ PlanPanic

SpecPlan == InitPlan /\ [][NextPlan]_vars

\* The planner alone under the example configuration: micro-intervals of
\* 25 +- 5 seconds, rests of 5 seconds, a target of 1 minute.
ExampleConfig == MkConfig(25, 5, 5, 1, 0, 1, 0)

ExampleJitters == 0..Min(JitterRange - 1, MaxExampleJitter)

PlanBeginExample == PlanBeginWith(ExampleJitters)

InitExample ==
    /\ cfg = ExampleConfig
    /\ build = "mutex"
    /\ pc = "plan"
    /\ InitCommon

NextExample ==
    \/ CallPlan
    \/ PlanBeginExample
    \/ PlanAttempt
    \/ PlanExhausted

SpecExample == InitExample /\ [][NextExample]_vars

\* Configurations with a negative offset, minDur > maxDur, which nothing
\* between loadConfig and the planner rejects.
InvalidConfigs ==
    { MkConfig(b, 0 - o, r, 0, 0, 1, 0) : b \in 1..3, o \in 1..2, r \in 0..1 }
    \cup { MkConfig(25, 0 - 5, 5, 1, 0, 1, 0) }

\* The planner alone, called once under each of InvalidConfigs.
InitInvalid ==
    /\ cfg \in InvalidConfigs
    /\ build = "mutex"
    /\ pc = "plan"
    /\ InitCommon

SpecInvalid == InitInvalid /\ [][NextPlan]_vars


(***************************************************************************)
(* The shared timer state: setCurrentTask, setMesoTask, clearMesoTask.     *)
(* In the mutex build the stores are made between state.Lock() and         *)
(* state.Unlock().  The lock-free build's writer is not among the source   *)
(* files: there each store is taken to be one atomic store, made in the    *)
(* same order, with no lock around them.                                   *)
(***************************************************************************)
LockFree == build = "atomic"

\* Variant of ClearedFlag: clearMesoTask leaves the flag set.
ClearedFlagStuck == TRUE

\* The value clearMesoTask stores in InMeso.
ClearedFlag == FALSE

\* state.Lock()
DriverLock ==
    /\ fn \in PublishFns /\ step = 0
    /\ IF LockFree
          THEN UNCHANGED mutex
          ELSE mutex = "free" /\ mutex' = "driver"
    /\ step' = 1
    /\ UNCHANGED <<cfg, build, now, pc, fn, arg, sleepFrom, loopVars,
                   microDurations, plannerVars, sharedVars, speakerInited,
                   readerVars, histVars>>

\* state.CurrentStartTime = time.Now()
SetCurrentStart ==
    /\ fn = "setCurrentTask" /\ step = 1
    /\ CurrentStartTime' = now
    /\ lastCurrent' = <<now, arg>>
    /\ lastElapsed' = <<>>
    /\ step' = 2
    /\ UNCHANGED <<cfg, build, now, pc, fn, arg, sleepFrom, loopVars,
                   microDurations, plannerVars, CurrentDuration, MesoStartTime,
                   MesoDuration, InMeso, mutex, speakerInited, readerVars,
                   cues, planLens, lastMeso, groupWaits, tried>>

\* state.CurrentDuration = duration
SetCurrentDuration ==
    /\ fn = "setCurrentTask" /\ step = 2
    /\ CurrentDuration' = arg
    /\ step' = 9
    /\ UNCHANGED <<cfg, build, now, pc, fn, arg, sleepFrom, loopVars,
                   microDurations, plannerVars, CurrentStartTime, MesoStartTime,
                   MesoDuration, InMeso, mutex, speakerInited, readerVars,
                   histVars>>

\* state.MesoStartTime = time.Now()
SetMesoStart ==
    /\ fn = "setMesoTask" /\ step = 1
    /\ MesoStartTime' = now
    /\ step' = 2
    /\ UNCHANGED <<cfg, build, now, pc, fn, arg, sleepFrom, loopVars,
                   microDurations, plannerVars, CurrentStartTime,
                   CurrentDuration, MesoDuration, InMeso, mutex, speakerInited,
                   readerVars, histVars>>

\* state.MesoDuration = duration
SetMesoDuration ==
    /\ fn = "setMesoTask" /\ step = 2
    /\ MesoDuration' = arg
    /\ step' = 3
    /\ UNCHANGED <<cfg, build, now, pc, fn, arg, sleepFrom, loopVars,
                   microDurations, plannerVars, CurrentStartTime,
                   CurrentDuration, MesoStartTime, InMeso, mutex, speakerInited,
                   readerVars, histVars>>

\* state.InMeso = true
SetMesoFlag ==
    /\ fn = "setMesoTask" /\ step = 3
    /\ InMeso' = TRUE
    /\ lastMeso' = <<MesoStartTime, MesoDuration>>
    /\ step' = 9
    /\ UNCHANGED <<cfg, build, now, pc, fn, arg, sleepFrom, loopVars,
                   microDurations, plannerVars, CurrentStartTime,
                   CurrentDuration, MesoStartTime, MesoDuration, mutex,
                   speakerInited, readerVars, cues, planLens, lastCurrent,
                   lastElapsed, groupWaits, tried>>

\* state.InMeso = false
ClearMesoFlag ==
    /\ fn = "clearMesoTask" /\ step = 1
    /\ InMeso' = ClearedFlag
    /\ step' = 9
    /\ UNCHANGED <<cfg, build, now, pc, fn, arg, sleepFrom, loopVars,
                   microDurations, plannerVars, CurrentStartTime,
                   CurrentDuration, MesoStartTime, MesoDuration, mutex,
                   speakerInited, readerVars, histVars>>

\* Variant of Unlocked: the publish returns with the mutex still held.
UnlockedNever == "driver"

\* The mutex after state.Unlock().
Unlocked == "free"

\* state.Unlock(), and the return; wait goes on to time.Sleep(duration).
DriverUnlock ==
    /\ fn \in PublishFns /\ step = 9
    /\ mutex' = IF LockFree THEN mutex ELSE Unlocked
    /\ IF fn = "setCurrentTask"
          THEN /\ fn' = "sleep" /\ step' = 0
               /\ sleepFrom' = now
               /\ UNCHANGED <<pc, loopVars>>
          ELSE /\ Return
               /\ UNCHANGED sleepFrom
    /\ UNCHANGED <<cfg, build, now, arg, microDurations, plannerVars, sharedVars,
                   speakerInited, readerVars, histVars>>

\* Variant of SleepOver: time.Sleep returns without waiting.
SleepOverAtOnce == TRUE

\* time.Sleep(duration) returns once the duration has passed; a duration
\* <= 0 returns at once.
SleepOver == now >= sleepFrom + arg

SleepDone ==
    /\ fn = "sleep"
    /\ SleepOver
    /\ Return
    /\ UNCHANGED <<cfg, build, now, arg, sleepFrom, microDurations, plannerVars,
                   sharedVars, mutex, speakerInited, readerVars, histVars>>

(***************************************************************************)
(* playSound.                                                              *)
(***************************************************************************)
\* Variant of PlaySoundFail: the error is raised as a panic.
PlaySoundFailPanics ==
    /\ fn = "playSound" /\ step = 0
    /\ \E failure \in {"open", "decode"} : Recover
    /\ UNCHANGED <<cfg, build, now, arg, sleepFrom, microDurations, plannerVars,
                   sharedVars, mutex, speakerInited, readerVars, histVars>>

\* os.Open or mp3.Decode fails: the error is printed and playSound returns.
PlaySoundFail ==
    /\ fn = "playSound" /\ step = 0
    /\ \E failure \in {"open", "decode"} : Return
    /\ UNCHANGED <<cfg, build, now, arg, sleepFrom, microDurations, plannerVars,
                   sharedVars, mutex, speakerInited, readerVars, histVars>>

\* The file decodes: speaker.Play, and playSound blocks on <-done.
PlaySoundStart ==
    /\ fn = "playSound" /\ step = 0
    /\ speakerInited' = TRUE
    /\ step' = 1
    /\ UNCHANGED <<cfg, build, now, pc, fn, arg, sleepFrom, loopVars,
                   microDurations, plannerVars, sharedVars, mutex, readerVars,
                   histVars>>

\* The callback sends on done: playSound returns.
PlaySoundDone ==
    /\ fn = "playSound" /\ step = 1
    /\ Return
    /\ UNCHANGED <<cfg, build, now, arg, sleepFrom, microDurations, plannerVars,
                   sharedVars, mutex, speakerInited, readerVars, histVars>>

(***************************************************************************)
(* The wall clock.                                                         *)
(***************************************************************************)
\* The clock is read in whole seconds: it advances while the driver is blocked
\* in time.Sleep or on a playing sound; the other statements take no time.
Tick ==
    /\ now < MaxTime
    /\ fn = "sleep" \/ (fn = "playSound" /\ step = 1)
    /\ \A r \in Readers :
          (LockFree /\ rpc[r] # "idle") => now - snap[r].now < MaxReadSpan
    /\ now' = now + 1
    /\ UNCHANGED <<cfg, build, pc, fn, step, arg, sleepFrom, loopVars,
                   microDurations, plannerVars, sharedVars, mutex, speakerInited,
                   readerVars, histVars>>

(***************************************************************************)
(* The readers.  "web" is statusHandler, "gui" is Game.Draw (mutex build)  *)
(* or Game.Update (lock-free build).                                       *)
(***************************************************************************)
\* A request arrives / a frame is drawn: state.Lock() is called.
LockedCall(r) ==
    /\ ~LockFree
    /\ rpc[r] = "idle"
    /\ rpc' = [rpc EXCEPT ![r] = "lock"]
    /\ UNCHANGED <<cfg, build, now, ctlVars, loopVars, microDurations,
                   plannerVars, sharedVars, mutex, speakerInited, snap,
                   histVars>>

\* state.Lock() is granted and the fields are read under the lock.
LockedRead(r) ==
    /\ rpc[r] = "lock"
    /\ mutex = "free"
    /\ mutex' = r
    /\ snap' = [snap EXCEPT ![r] =
                  [now |-> now, cStart |-> CurrentStartTime,
                   cDur |-> CurrentDuration, mStart |-> MesoStartTime,
                   mDur |-> MesoDuration, inMeso |-> InMeso,
                   cRef |-> <<0, 0>>,
                   cPaired |-> Paired(CurrentStartTime, CurrentDuration,
                                      lastCurrent),
                   mPaired |-> Paired(MesoStartTime, MesoDuration,
                                      lastMeso),
                   prevElapsed |-> lastElapsed]]
    /\ lastElapsed' = <<Elapsed(now, CurrentStartTime, CurrentDuration)>>
    /\ rpc' = [rpc EXCEPT ![r] = "computed"]
    /\ UNCHANGED <<cfg, build, now, ctlVars, loopVars, microDurations,
                   plannerVars, sharedVars, speakerInited, cues, planLens,
                   lastCurrent, lastMeso, groupWaits, tried>>

\* The response is written / the frame is drawn; the deferred state.Unlock().
LockedReturn(r) ==
    /\ ~LockFree
    /\ rpc[r] = "computed"
    /\ mutex' = "free"
    /\ rpc' = [rpc EXCEPT ![r] = "idle"]
    /\ snap' = [snap EXCEPT ![r] = EmptySnap]
    /\ UNCHANGED <<cfg, build, now, ctlVars, loopVars, microDurations,
                   plannerVars, sharedVars, speakerInited, histVars>>

\* now := time.Now().UnixNano()
AtomicCall(r) ==
    /\ LockFree
    /\ rpc[r] = "idle"
    /\ Cardinality({q \in Readers : rpc[q] # "idle"}) < MaxInFlight
    /\ snap' = [snap EXCEPT ![r].now = now]
    /\ rpc' = [rpc EXCEPT ![r] = "cStart"]
    /\ UNCHANGED <<cfg, build, now, ctlVars, loopVars, microDurations,
                   plannerVars, sharedVars, mutex, speakerInited, histVars>>

\* atomic.LoadInt64(&currentStartNano), (&currentDuration), (&mesoStartNano),
\* (&mesoDuration), atomic.LoadInt32(&inMeso): one load a step.
AtomicLoad(r) ==
    /\ LockFree
    /\ \/ /\ rpc[r] = "cStart"
          /\ snap' = [snap EXCEPT ![r].cStart = CurrentStartTime,
                                   ![r].cRef = lastCurrent]
          /\ rpc' = [rpc EXCEPT ![r] = "cDur"]
       \/ /\ rpc[r] = "cDur"
          /\ snap' = [snap EXCEPT ![r].cDur = CurrentDuration,
                                   ![r].cRef = <<0, 0>>,
                                   ![r].cPaired =
                                      Paired(snap[r].cStart, CurrentDuration,
                                             snap[r].cRef)]
          /\ rpc' = [rpc EXCEPT ![r] = "mStart"]
       \/ /\ rpc[r] = "mStart"
          /\ snap' = [snap EXCEPT ![r].mStart = MesoStartTime]
          /\ rpc' = [rpc EXCEPT ![r] = "mDur"]
       \/ /\ rpc[r] = "mDur"
          /\ snap' = [snap EXCEPT ![r].mDur = MesoDuration]
          /\ rpc' = [rpc EXCEPT ![r] = "inMeso"]
       \/ /\ rpc[r] = "inMeso"
          /\ snap' = [snap EXCEPT ![r].inMeso = InMeso,
                                   ![r].mPaired =
                                      Paired(snap[r].mStart, snap[r].mDur,
                                             lastMeso)]
          /\ rpc' = [rpc EXCEPT ![r] = "computed"]
    /\ UNCHANGED <<cfg, build, now, ctlVars, loopVars, microDurations,
                   plannerVars, sharedVars, mutex, speakerInited, histVars>>

\* The response is written / currentCache is updated.
AtomicReturn(r) ==
    /\ LockFree
    /\ rpc[r] = "computed"
    /\ rpc' = [rpc EXCEPT ![r] = "idle"]
    /\ snap' = [snap EXCEPT ![r] = EmptySnap]
    /\ UNCHANGED <<cfg, build, now, ctlVars, loopVars, microDurations,
                   plannerVars, sharedVars, mutex, speakerInited, histVars>>

Driver ==
    \/ MacroStart
    \/ CallPlan
    \/ CallSetMeso
    \/ CallWait
    \/ CallClear
    \/ CallPlaySound
    \/ PlanBegin
    \/ PlanAttempt
    \/ PlanExhausted
    \/ PlanPanic
    \/ DriverLock
    \/ SetCurrentStart
    \/ SetCurrentDuration
    \/ SetMesoStart
    \/ SetMesoDuration
    \/ SetMesoFlag
    \/ ClearMesoFlag
    \/ DriverUnlock
    \/ SleepDone
    \/ PlaySoundFail
    \/ PlaySoundStart
    \/ PlaySoundDone

LockedReader(r) ==
    \/ LockedCall(r)
    \/ LockedRead(r)
    \/ LockedReturn(r)

AtomicReader(r) ==
    \/ AtomicCall(r)
    \/ AtomicLoad(r)
    \/ AtomicReturn(r)

\* The build of main.go with the readers that take the lock.
Next ==
    \/ Driver
    \/ Tick
    \/ \E r \in Readers : LockedReader(r)

Spec == Init /\ [][Next]_vars

\* The same build under the claim's assumptions: the driver goroutine is
\* scheduled and is granted the mutex it waits for (sync.Mutex hands a starved
\* waiter the lock), the clock advances, so every sleep and every cue returns,
\* and a reader that holds the mutex returns.
FairConfigs == { MkConfig(2, 1, 1, 0, 0, 1, 0), MkConfig(1, 0, 0, 0, 0, 1, 0) }

InitFair ==
    /\ cfg \in FairConfigs
    /\ build = "mutex"
    /\ pc = "macro_start"
    /\ InitCommon

Fairness ==
    /\ SF_vars(Driver)
    /\ WF_vars(Tick)
    /\ \A r \in Readers : WF_vars(LockedReturn(r))

SpecFair == InitFair /\ [][Next]_vars /\ Fairness

\* The build whose readers load the fields without the lock.
InitLockFree ==
    /\ cfg \in LockFreeConfigs
    /\ build = "atomic"
    /\ pc = "macro_start"
    /\ InitCommon

NextLockFree ==
    \/ Driver
    \/ Tick
    \/ \E r \in Readers : AtomicReader(r)

SpecLockFree == InitLockFree /\ [][NextLockFree]_vars


(***************************************************************************)
(* The claims.                                                             *)
(***************************************************************************)
Count(s, c) == Cardinality({x \in 1..Len(s) : s[x] = c})

\* The driver has returned from planMesoSchedule and not yet moved on.
PlanReturned == pc = "set_meso" /\ fn = "none"

\* A macro-cycle has run to its end: the last playSound has returned and the
\* next runMacroCycle has not begun.
CycleEnded == pc = "macro_start" /\ cues # <<>>

\* C1: a fault inside one iteration of the driver's outer loop is contained:
\* the driver goroutine never terminates, it goes on to a fresh macro-cycle.
\* (Violated: the recover is deferred by startTimerLoop, outside the loop, so
\* the panic ends the goroutine.)
C1_DriverNeverTerminates == pc # "dead"

\* C2: for every valid configuration, target and draw, planMesoSchedule
\* chooses a count n >= 1, never fails, and returns a non-empty sequence.
\* (Violated: the fallback uses estN unclamped; with estN = 0 the planner
\* indexes durations[-1] and panics.)
C2_PlannerNeverFails ==
    /\ (fn = "plan" /\ step = 1) => n >= 1
    /\ pc = "dead" => fn # "none"
    /\ PlanReturned => Len(microDurations) >= 1

\* C3: every duration planMesoSchedule returns, except possibly the last,
\* lies in [minDur, maxDur], on the accepted and on the closest-miss path.
\* (Violated: when every attempt misses by 1000000 or more, bestDurations is
\* never written and a sequence of zeros is returned.)
C3_AllButLastInBounds ==
    PlanReturned =>
        \A x \in 1..(Len(microDurations) - 1) : InBounds(cfg, microDurations[x])

\* C4: the returned durations plus (count-1)*microRest add up to the
\* jittered target, which lies in [targetSeconds, targetSeconds+60].
\* (Violated by the same sequence of zeros as C3.)
C4_SumMeetsTarget ==
    PlanReturned =>
        /\ SumSeq(microDurations)
             + (Len(microDurations) - 1) * cfg.MicroRestS = actualTarget
        /\ TargetSec(cfg) <= actualTarget
        /\ actualTarget <= TargetSec(cfg) + 60

\* C5: every reader's snapshot holds an active (start, total) pair written
\* together by one setCurrentTask (or the initial pair).
\* (Violated by the lock-free readers, which load start and total one after
\* the other.)
C5_ActivePairReadTogether ==
    \A r \in Readers : rpc[r] = "computed" => snap[r].cPaired

\* C6: a snapshot with inMeso = true holds the meso start and a non-zero meso
\* total written by the most recent setMesoTask.
\* (Violated by the lock-free readers, which load the total before the flag.)
C6_MesoFlagWithItsTotal ==
    \A r \in Readers :
        (rpc[r] = "computed" /\ snap[r].inMeso) =>
            (snap[r].mDur # 0 /\ snap[r].mPaired)

\* C7: the driver's publish never has to wait for a reader, and no reader has
\* to wait for another reader.
\* (Violated in the mutex build: the readers hold state.Lock() while they
\* compute and draw.)
C7_NobodyWaitsForAReader ==
    /\ ~(fn \in PublishFns /\ step = 0 /\ mutex \in Readers)
    /\ \A r \in Readers : ~(rpc[r] = "lock" /\ mutex \in Readers \ {r})

\* The driver is inside wait() for a micro-interval or a micro-rest.
InGroupWait ==
    pc \in {"micro_wait", "micro_rest"} /\ fn \in {"setCurrentTask", "sleep"}

\* The driver is inside wait() for a meso-rest or a macro-rest.
InRestWait ==
    pc \in {"meso_rest", "macro_rest"} /\ fn \in {"setCurrentTask", "sleep"}

\* From the call of the group's first setCurrentTask to clearMesoTask's store.
SpanFromFirstPublish ==
    \/ pc = "micro_wait" /\ (j > 0 \/ fn # "none")
    \/ pc \in {"micro_cue", "micro_rest", "micro_rest_cue"}
    \/ pc = "clear_meso" /\ (fn = "none" \/ step <= 1)

\* From setMesoTask's store of the flag to clearMesoTask's store.
SpanFromSetMesoTask ==
    \/ pc = "set_meso" /\ fn = "setMesoTask" /\ step = 9
    \/ pc \in {"micro_wait", "micro_cue", "micro_rest", "micro_rest_cue"}
    \/ pc = "clear_meso" /\ (fn = "none" \/ step <= 1)

\* C8 as stated: inMeso is true in every micro-interval and micro-rest wait,
\* false in every meso-rest and macro-rest wait, and true exactly from the
\* first micro-interval's publish to clearMesoTask.
\* (Violated: inMeso is already true when setMesoTask returns, before the
\* first micro-interval is published.)
C8_InMesoFromFirstPublish ==
    /\ InGroupWait => InMeso
    /\ InRestWait => ~InMeso
    /\ InMeso <=> SpanFromFirstPublish

\* C8 as amended: inMeso is true in every micro-interval and micro-rest wait,
\* false in every meso-rest and macro-rest wait, and true exactly from
\* setMesoTask's store (before the first micro-interval's publish) to
\* clearMesoTask's store.
C8_InMesoFromSetMesoTask ==
    /\ InGroupWait => InMeso
    /\ InRestWait => ~InMeso
    /\ InMeso <=> SpanFromSetMesoTask

\* A meso-rest sleep: a group has been published and cleared before it.
C8_Witness == pc = "meso_rest" /\ fn = "sleep" /\ ~InMeso /\ lastMeso # <<0, 0>>

\* C9: in one macro-cycle the meso-rest (MesoComplete, the wait,
\* MesoRestComplete) is done exactly once after each group but the last and
\* skipped after the last, which goes straight on to MacroComplete.
C9_MesoRestAfterAllButLast ==
    /\ pc \in {"meso_cue", "meso_rest", "meso_rest_cue"} =>
          /\ i < cfg.MesoCount - 1
          /\ Count(cues, "MesoComplete") = i + (IF pc = "meso_cue" /\ fn = "none" THEN 0 ELSE 1)
    /\ pc = "plan" =>
          /\ Count(cues, "MesoComplete") = i
          /\ Count(cues, "MesoRestComplete") = i
    /\ (pc \in {"macro_cue", "macro_clear", "macro_rest", "macro_rest_cue"}
          \/ CycleEnded) =>
          /\ Count(cues, "MesoComplete") = cfg.MesoCount - 1
          /\ Count(cues, "MesoRestComplete") = cfg.MesoCount - 1
    /\ \A x \in 1..Len(cues) :
          /\ cues[x] = "MesoRestComplete" => (x > 1 /\ cues[x - 1] = "MesoComplete")
          /\ cues[x] = "MesoComplete" => (x > 1 /\ cues[x - 1] = "MicroComplete")
          /\ cues[x] = "MacroComplete" => (x > 1 /\ cues[x - 1] = "MicroComplete")

\* A macro-cycle of three groups has ended, with two meso-rests.
C9_Witness ==
    /\ CycleEnded
    /\ cfg.MesoCount = 3
    /\ Count(cues, "MesoRestComplete") = 2

\* The cues of a macro-cycle of one group of k micro-intervals.
SingleGroupCues(k) ==
    [x \in 1..(2 * k + 1) |->
        IF x = 2 * k + 1 THEN "MacroRestComplete"
        ELSE IF x = 2 * k THEN "MacroComplete"
        ELSE IF x % 2 = 1 THEN "MicroComplete"
        ELSE "MicroRestComplete"]

\* C10: with mesoCount = 1 and a plan of k micro-intervals a macro-cycle
\* emits MicroComplete, then (MicroRestComplete, MicroComplete) k-1 times,
\* then MacroComplete, then MacroRestComplete, and nothing else.
C10_SingleGroupCueOrder ==
    (CycleEnded /\ cfg.MesoCount = 1) =>
        (Len(planLens) = 1 /\ cues = SingleGroupCues(planLens[1]))

\* A macro-cycle of one group of three micro-intervals has ended.
C10_Witness ==
    /\ CycleEnded
    /\ cfg.MesoCount = 1
    /\ planLens = <<3>>

\* C11: from the return of setCurrentTask(T) to the driver's next publish every
\* snapshot reports the active total T, and the active elapsed of a snapshot
\* is never less than that of the snapshot before it.
C11_SnapshotsAgreeAndAdvance ==
    \A r \in Readers :
        rpc[r] = "computed" =>
            /\ snap[r].cDur = lastCurrent[2]
            /\ snap[r].prevElapsed # <<>> =>
                  CurrentElapsed(snap[r]) >= snap[r].prevElapsed[1]

\* A second snapshot of one sleeping interval, with a larger elapsed than the
\* first.
C11_Witness ==
    \E r \in Readers :
        /\ rpc[r] = "computed"
        /\ fn = "sleep"
        /\ snap[r].cDur = arg
        /\ snap[r].prevElapsed # <<>>
        /\ CurrentElapsed(snap[r]) > snap[r].prevElapsed[1]

\* C12: in every snapshot the elapsed time of the active interval and of the
\* meso-group lies in [0, total], and equals the total whenever
\* now - start > total.
\* (Violated: the readers clamp from above only, and the planner can return a
\* negative last duration, which wait publishes as the total.)
C12_ElapsedWithinTotal ==
    \A r \in Readers :
        rpc[r] = "computed" =>
            /\ 0 <= CurrentElapsed(snap[r])
            /\ CurrentElapsed(snap[r]) <= snap[r].cDur
            /\ snap[r].now - snap[r].cStart > snap[r].cDur =>
                  CurrentElapsed(snap[r]) = snap[r].cDur
            /\ 0 <= MesoElapsed(snap[r])
            /\ MesoElapsed(snap[r]) <= snap[r].mDur
            /\ snap[r].now - snap[r].mStart > snap[r].mDur =>
                  MesoElapsed(snap[r]) = snap[r].mDur

\* C13: with microBase=25, microOffset=5, microRest=5 and a target of 1 minute
\* planMesoSchedule returns 1 to 3 micro-intervals, each of 20..30 seconds, for
\* a jittered target of 60..120 seconds.
\* (Violated: no count is feasible for a jittered target of 66..69 seconds, and
\* the fallback count 2 forces a last interval of more than 30 seconds.)
C13_ExamplePlanShape ==
    PlanReturned =>
        /\ Len(microDurations) >= 1
        /\ Len(microDurations) <= 3
        /\ \A x \in 1..Len(microDurations) :
              microDurations[x] >= 20 /\ microDurations[x] <= 30
        /\ actualTarget >= 60
        /\ actualTarget <= 120

\* C14: a cue whose sound file cannot be opened or decoded is swallowed by
\* playSound: however playSound ends, the driver goes on to the statement
\* that follows the call, and no step taken while the driver is inside
\* playSound changes the shared timer state.
C14_FailedCueSwallowed ==
    [][fn = "playSound" =>
          /\ UNCHANGED sharedVars
          /\ fn' # "playSound" =>
                /\ fn' = "none"
                /\ pc' = After(pc).pc
                /\ i' = After(pc).i
                /\ j' = After(pc).j]_vars

\* The driver sleeps in the micro-rest that follows a cue, and no playSound
\* call has got as far as speaker.Play: the MicroComplete cue has failed.
C14_Witness ==
    /\ pc = "micro_rest" /\ fn = "sleep"
    /\ cues = <<"MicroComplete">>
    /\ ~speakerInited

\* C15: every duration of a plan planMesoSchedule returns is > 0 seconds, the
\* last one of a closest-miss plan included, so the driver never waits for a
\* zero or negative micro-interval.
\* (Violated: the last duration of a closest miss is whatever the target
\* leaves, and a plan no attempt improved on is all zeros.)
C15_PlanDurationsPositive ==
    PlanReturned =>
        \A x \in 1..Len(microDurations) : microDurations[x] > 0

\* C16: while the driver sleeps in a wait for duration D the shared active
\* total is D and the active start is the time the sleep began, and a cue is
\* emitted only when the sleep of the wait before it is over.
C16_WaitPublishesThenSleeps ==
    /\ fn = "sleep" =>
          /\ arg = WaitDuration(pc)
          /\ CurrentDuration = arg
          /\ CurrentStartTime = sleepFrom
    /\ pc \in CueStmts => now >= CurrentStartTime + CurrentDuration

\* The driver is in the middle of a sleep of non-zero length.
C16_Witness ==
    /\ fn = "sleep"
    /\ arg > 0
    /\ now < sleepFrom + arg

\* The statements of runMesoCycle after the planner's return.
InGroup ==
    pc \in {"set_meso", "micro_wait", "micro_cue", "micro_rest",
            "micro_rest_cue", "clear_meso"}

\* C17: the planner is called once for each meso-group; from the group's
\* first micro-interval wait on inMeso is true and the meso total is the sum
\* of the plan's durations plus (len(plan)-1)*microRest; and that total is the
\* sum of the micro-interval and micro-rest waits the driver makes in the
\* group.
C17_MesoTotalIsGroupLength ==
    /\ (pc = "plan" /\ fn = "none") => Len(planLens) = i
    /\ InGroup => Len(planLens) = i + 1
    /\ pc \in {"micro_wait", "micro_cue", "micro_rest", "micro_rest_cue"} =>
          /\ InMeso
          /\ MesoDuration = SumSeq(microDurations)
                              + (Len(microDurations) - 1) * cfg.MicroRestS
    /\ pc = "clear_meso" => groupWaits = MesoDuration

\* The second group of a cycle has made all its waits: two micro-intervals
\* and the rest between them.
C17_Witness ==
    /\ pc = "clear_meso" /\ fn = "none"
    /\ i = 1
    /\ Len(microDurations) = 2
    /\ cfg.MicroRestS = 1
    /\ groupWaits = MesoDuration

\* C18: the driver holds state's mutex only inside setCurrentTask, setMesoTask
\* or clearMesoTask, never while it sleeps in wait or is inside playSound.
C18_LockOnlyInsidePublish ==
    /\ mutex = "driver" => (fn \in PublishFns /\ step >= 1)
    /\ fn \in {"sleep", "playSound"} => mutex # "driver"

\* A reader has taken the mutex while the driver sleeps.
C18_Witness ==
    \E r \in Readers :
        /\ fn = "sleep"
        /\ now > sleepFrom
        /\ rpc[r] = "computed"
        /\ mutex = r
        /\ snap[r].now = now

\* C19: with minDur > maxDur (a negative offset) planMesoSchedule still returns
\* a plan for every target and every count n >= 1; it does not crash.
\* (Violated: for n >= 2 the draw rand.Intn(maxDur-minDur+1) has an argument
\* <= 0 and panics.)
C19_InvalidConfigAbsorbed ==
    (MinDur(cfg) > MaxDur(cfg) /\ n >= 1) => pc # "dead"

\* runMacroCycle has been entered and no meso-group has begun.
CycleStarted == pc = "plan" /\ i = 0 /\ fn = "none"

\* C20: the driver has no terminal state: when every sleep and every cue
\* returns, each macro-cycle that starts reaches MacroRestComplete and the
\* start of the next macro-cycle (or outlasts the clock of the model).
\* (Violated: a panic of the planner ends the driver goroutine in the middle
\* of the macro-cycle.)
C20_EveryCycleCompletes ==
    CycleStarted ~> (CycleEnded \/ now = MaxTime)

\* The last duration of a plan, and the attempts whose last duration is in
\* [minDur, maxDur].
LastOf(plan) == plan[Len(plan)]
Hits == {x \in 1..Len(tried) : InBounds(cfg, LastOf(tried[x]))}

\* C21: when no attempt of planMesoSchedule has an in-bound last duration the
\* returned plan is one of the attempted plans, one whose last duration
\* deviates least from [minDur, maxDur]; when some attempt has one, it is the
\* latest attempt and its plan is the one returned.
\* (Violated: a closest miss is recorded only if it deviates by less than
\* 1000000 seconds; otherwise the zero-filled bestDurations is returned, which
\* no attempt made.)
C21_ClosestMissPolicy ==
    PlanReturned =>
        IF Hits # {}
           THEN /\ Hits = {Len(tried)}
                /\ microDurations = tried[Len(tried)]
           ELSE \E x \in 1..Len(tried) :
                   /\ microDurations = tried[x]
                   /\ \A y \in 1..Len(tried) :
                         Diff(cfg, LastOf(tried[x])) <= Diff(cfg, LastOf(tried[y]))

\* C22: every micro-interval or micro-rest wait published while inMeso is true
\* lies inside the published meso span: activeStart >= mesoStart and
\* activeStart + activeTotal <= mesoStart + mesoTotal.
\* (Violated: the meso total counts the waits only, and playSound blocks the
\* driver between them for as long as the sound plays.)
C22_GroupSpanCoversWaits ==
    (InMeso /\ pc \in {"micro_wait", "micro_rest"} /\ fn = "sleep") =>
        /\ CurrentStartTime >= MesoStartTime
        /\ CurrentStartTime + CurrentDuration <= MesoStartTime + MesoDuration

====
